---- MODULE Spec2Model ----
(***************************************************************************)
(* Kinera: the repetition detector (quantprocess/RepTracker.py, copied     *)
(* into cv/cv-view.py and cv/datahandler.py), its two consumers (run_view  *)
(* and run_workout / store_reps) and the MJPEG stream server               *)
(* (cv/cv_stream_server.py).                                               *)
(*                                                                         *)
(* Angles are carried in half-degrees: _get_angle returns (a + b) / 2.0,   *)
(* which the model keeps exact as the integer a + b, and every comparison  *)
(* against a threshold t (in degrees) is made against 2 * t.  Timestamps   *)
(* and durations are carried in milliseconds: rep_summary divides by       *)
(* 1000.0, which the model keeps exact as a number of milliseconds.        *)
(***************************************************************************)
EXTENDS Integers, Sequences, FiniteSets, TLC

(* ------------------------------ bounds -------------------------------- *)

\* number of frames fed to a detector
MaxTicks == 8

\* number of lines the pose logger appends to pose_log.json
MaxLog == 1

\* number of frames the stream worker encodes
MaxFrames == 3

\* number of parts a /cv-stream handler writes to its client
MaxSent == 3
MaxRepLen == 3
MaxWrites == 2
MaxStarts == 2
MaxSignals == 3
MaxClients == 2

\* the scenario of the specification: mean elbow angles (degrees) and timestamps (ms)
ScenarioAngles == <<110, 125, 145, 130, 115, 120, 140, 150>>
ScenarioTimes == <<0, 100, 200, 300, 400, 500, 600, 700>>

\* milliseconds between two frames
TickMs == ScenarioTimes[2] - ScenarioTimes[1]

(* --------------------------- program constants ------------------------ *)

\* Python None where a number is expected (a missing joint angle, prev_angle)
Absent == -1

WAITING_TOP == 0
DESCENDING == 1
BOTTOM_REACHED == 2
ASCENDING == 3

\* WORKOUT_TO_PARAMETERS of datahandler.py; the same numbers build the
\* module-level detector of cv-view.py.
WORKOUT_TO_PARAMETERS ==
    [pushups |-> [min_threshold |-> 120, max_threshold |-> 145]]

VARIABLES
    program,      \* the script that was started
    detector,     \* the module-level SimpleRepDetector (state, prev_angle, current_rep)
    reps,         \* the module-level list reps
    clock,        \* timestamp_utc of the next frame, in ms
    feed_in,      \* arguments of the last feed call
    feed_pre,     \* the detector as it was when the last feed call started
    feed_ret,     \* what the last feed call returned
    hist,         \* the tracked angle of every feed call so far (Absent for a gap)
    emitted,      \* every RepEvent feed has returned so far, in order
    heap,         \* the list objects of the detector, in order of creation
    cur_ref,      \* the list object self.current_rep is bound to
    event_refs,   \* the list objects feed has returned, in order
    \* datahandler.py
    workout_file, \* "workout_id" in ../workout_id.json
    pose_log,     \* the lines of pose_log.json
    readLines,    \* the module-level readLines
    reps_summary, \* the list in reps_summary.json (NoDoc while never written)
    written_at,   \* how many RepEvents had been emitted when it was written
    error,        \* the uncaught exception that ended the process
    session,      \* how far the session the workout file opened has got
    writes,       \* number of times the app has rewritten the workout file
    \* cv_stream_server.py
    latest_jpeg,  \* server._latest_jpeg
    lock,         \* who holds server._lock
    core,         \* the camera handle of run_cv_loop
    w_pc,         \* where the worker thread is in run_cv_loop
    w_jpeg,       \* the data argument of the set_latest_jpeg call in progress
    frames,       \* number of frames encoded so far
    h_pc,         \* where the request thread is in do_GET
    h_jpeg,       \* the local jpeg of do_GET
    sent,         \* the parts written to the client, in order
    completed,    \* the argument of the last set_latest_jpeg call that returned
    m_pc,         \* where the main thread is in main
    closes,       \* number of core.close() calls made by run_cv_loop
    w_exit,       \* why run_cv_loop was left
    request,      \* the request the handler was last called for
    response,     \* the status line and headers last sent
    h_end,        \* how the /cv-stream handler last started has ended
    backlog,      \* the requests of clients that have connected and wait to be accepted
    answered,     \* the clients whose request has got its status line
    \* cv-view.py, run_view
    v_pc,         \* where run_view is
    v_core,       \* the PoseCore of run_view
    v_closes,     \* number of core.close() calls made by run_view
    exit_requested, \* the flag _on_sigint sets
    v_exit,       \* why run_view was left
    \* live_session.py
    is_running,   \* LiveSessionPage.is_running
    rep_count,    \* LiveSessionPage.rep_count
    page_workout, \* LiveSessionPage.workout_id
    ui_timer,     \* whether ui_timer is active
    shown,        \* what video_label and feedback_label show
    t_running,    \* cv_thread.isRunning()
    t_camera,     \* the camera of the CV thread
    t_stops,      \* number of cv_thread.stop_workout() calls
    t_closes,     \* number of times the CV thread closed its camera
    signals,      \* signals emitted by the CV thread and not yet delivered
    page_exc,     \* the exception the last call of the page raised
    last_call,    \* the last method of the page that ran
    after_stop,   \* the page as the first of the last stop() calls in a row left it
    failure,      \* the failure the session met
    starts,       \* number of start() calls
    emits,        \* number of signals the CV thread has emitted
    \* rep_summary
    sum_in,       \* the rep passed to rep_summary
    sum_out,      \* what rep_summary returned
    sum_prev      \* what the call of rep_summary before that one returned

detvars ==
    <<detector, reps, clock, feed_in, feed_pre, feed_ret, hist, emitted, heap,
      cur_ref, event_refs>>

datavars ==
    <<workout_file, pose_log, readLines, reps_summary, written_at, error, session,
      writes>>

\* the clients of the server, told apart
clientvars == <<backlog, answered>>

streamvars ==
    <<latest_jpeg, lock, core, w_pc, w_jpeg, frames, h_pc, h_jpeg, sent, completed,
      m_pc, closes, w_exit, request, response, h_end, clientvars>>

\* cv-view.py, run_view
viewvars == <<v_pc, v_core, v_closes, exit_requested, v_exit>>

\* live_session.py and the CVThread it drives
pagevars ==
    <<is_running, rep_count, page_workout, ui_timer, shown, t_running, t_camera,
      t_stops, t_closes, signals, page_exc, last_call, after_stop, failure, starts,
      emits>>

\* the argument and the result of a rep_summary call
sumvars == <<sum_in, sum_out, sum_prev>>

\* what a step of cv_stream_server.py that accepts no connection leaves alone
notstream == <<program, detvars, datavars, viewvars, pagevars, sumvars, clientvars>>

vars == <<program, detvars, datavars, streamvars, viewvars, pagevars, sumvars>>

(* ------------------------------ detector ------------------------------ *)

\* feed returning None
NoRep == [some |-> FALSE, samples |-> <<>>]

\* feed returning the list rep
SomeRep(samples) == [some |-> TRUE, samples |-> samples]

\* SimpleRepDetector.__init__
NewDetector(min_threshold, max_threshold) ==
    [min_threshold |-> min_threshold,
     max_threshold |-> max_threshold,
     state         |-> WAITING_TOP,
     prev_angle    |-> Absent,
     current_rep   |-> <<>>]

\* a joint_angles dict: a tracked joint that is missing reads as None
JointAngles(a, b) == [left_elbow |-> a, right_elbow |-> b]

\* SimpleRepDetector._get_angle, in half-degrees
GetAngle(joint_angles) ==
    LET a == joint_angles.left_elbow
        b == joint_angles.right_elbow
    IN  IF a = Absent \/ b = Absent THEN Absent ELSE a + b

Sample(angle, timestamp) == [angle |-> angle, timestamp |-> timestamp]

\* the top comparison made strict
AtTopStrict(det, angle) == angle > 2 * det.max_threshold

\* angle >= self.max_threshold
AtTop(det, angle) == angle >= 2 * det.max_threshold

\* the bottom comparison made against the wrong threshold
AtBottomOfMax(det, angle) == angle <= 2 * det.max_threshold

\* angle <= self.min_threshold
AtBottom(det, angle) == angle <= 2 * det.min_threshold

\* angle > self.prev_angle
Increasing(det, angle) == angle > det.prev_angle

\* a missing tracked angle forgetting the previous angle
FeedAbsentForgets(det) == [det |-> [det EXCEPT !.prev_angle = Absent], rep |-> NoRep]

\* feed with a missing tracked angle: return None, nothing touched
FeedAbsent(det) == [det |-> det, rep |-> NoRep]

\* feed with no previous angle: seed prev_angle and return None
FeedSeed(det, angle) == [det |-> [det EXCEPT !.prev_angle = angle], rep |-> NoRep]

\* the WAITING_TOP branch
FeedWaitingTop(det, angle, timestamp) ==
    IF AtTop(det, angle)
    THEN [det EXCEPT !.state = DESCENDING,
                     !.current_rep = <<Sample(angle, timestamp)>>,
                     !.prev_angle = angle]
    ELSE [det EXCEPT !.prev_angle = angle]

\* the DESCENDING branch keeping only the sample that reaches the bottom
FeedDescendingDropsSample(det, angle, timestamp) ==
    IF AtBottom(det, angle)
    THEN [det EXCEPT !.current_rep = Append(det.current_rep, Sample(angle, timestamp)),
                     !.state = BOTTOM_REACHED, !.prev_angle = angle]
    ELSE [det EXCEPT !.prev_angle = angle]

\* the DESCENDING branch
FeedDescending(det, angle, timestamp) ==
    LET appended == Append(det.current_rep, Sample(angle, timestamp))
    IN  IF AtBottom(det, angle)
        THEN [det EXCEPT !.current_rep = appended, !.state = BOTTOM_REACHED,
                         !.prev_angle = angle]
        ELSE [det EXCEPT !.current_rep = appended, !.prev_angle = angle]

\* the BOTTOM_REACHED branch
FeedBottomReached(det, angle, timestamp) ==
    LET appended == Append(det.current_rep, Sample(angle, timestamp))
    IN  IF Increasing(det, angle)
        THEN [det EXCEPT !.current_rep = appended, !.state = ASCENDING,
                         !.prev_angle = angle]
        ELSE [det EXCEPT !.current_rep = appended, !.prev_angle = angle]

\* the rep is closed and the detector sent back to wait for a top
CloseRepToWaiting(det, angle) ==
    [det EXCEPT !.current_rep = <<>>, !.state = WAITING_TOP, !.prev_angle = angle]

\* the rep is closed: the accumulator is emptied and the detector re-armed
CloseRep(det, angle) ==
    [det EXCEPT !.current_rep = <<>>, !.state = DESCENDING, !.prev_angle = angle]

\* the ASCENDING branch
FeedAscending(det, angle, timestamp) ==
    LET appended == Append(det.current_rep, Sample(angle, timestamp))
    IN  IF AtTop(det, angle)
        THEN [det |-> CloseRep(det, angle), rep |-> SomeRep(appended)]
        ELSE [det |-> [det EXCEPT !.current_rep = appended, !.prev_angle = angle],
              rep |-> NoRep]

\* SimpleRepDetector.feed: the detector after the call and the value returned
Feed(det, joint_angles, timestamp) ==
    LET angle == GetAngle(joint_angles)
    IN  IF angle = Absent THEN FeedAbsent(det)
        ELSE IF det.prev_angle = Absent THEN FeedSeed(det, angle)
        ELSE IF det.state = WAITING_TOP
             THEN [det |-> FeedWaitingTop(det, angle, timestamp), rep |-> NoRep]
        ELSE IF det.state = DESCENDING
             THEN [det |-> FeedDescending(det, angle, timestamp), rep |-> NoRep]
        ELSE IF det.state = BOTTOM_REACHED
             THEN [det |-> FeedBottomReached(det, angle, timestamp), rep |-> NoRep]
        ELSE IF det.state = ASCENDING
             THEN FeedAscending(det, angle, timestamp)
        ELSE [det |-> [det EXCEPT !.prev_angle = angle], rep |-> NoRep]

(* ----------------------------- rep_summary ---------------------------- *)

RECURSIVE MinAngle(_)
\* min(angles)
MinAngle(rep) ==
    IF Len(rep) = 1 THEN rep[1].angle
    ELSE LET m == MinAngle(Tail(rep))
         IN  IF rep[1].angle < m THEN rep[1].angle ELSE m

\* the max taken over the first and the last sample only
MaxAngleOfEnds(rep) ==
    IF rep[1].angle > rep[Len(rep)].angle THEN rep[1].angle ELSE rep[Len(rep)].angle

RECURSIVE MaxAngle(_)
\* max(angles)
MaxAngle(rep) ==
    IF Len(rep) = 1 THEN rep[1].angle
    ELSE LET m == MaxAngle(Tail(rep))
         IN  IF rep[1].angle > m THEN rep[1].angle ELSE m

\* the duration taken from the last sample back to the first one
RepSummaryBackwards(rep) ==
    [min_angle       |-> MinAngle(rep),
     max_angle       |-> MaxAngle(rep),
     duration        |-> rep[1].timestamp - rep[Len(rep)].timestamp,
     range_of_motion |-> MaxAngle(rep) - MinAngle(rep),
     num_frames      |-> Len(rep)]

\* rep_summary: angles in half-degrees, duration in ms
RepSummary(rep) ==
    [min_angle       |-> MinAngle(rep),
     max_angle       |-> MaxAngle(rep),
     duration        |-> rep[Len(rep)].timestamp - rep[1].timestamp,
     range_of_motion |-> MaxAngle(rep) - MinAngle(rep),
     num_frames      |-> Len(rep)]

(* ------------------------------ run_view ------------------------------ *)

\* the joint angles a frame can carry: both elbows at a threshold, one at
\* each (a mean strictly inside the band), or one elbow not detected
FrameAngles ==
    {JointAngles(120, 120), JointAngles(145, 145), JointAngles(120, 145),
     JointAngles(Absent, 145), JointAngles(120, Absent)}

\* the rep put in front of the list
RecordRepInFront(rs, rep) == <<rep>> \o rs

\* reps.append(rep)
RecordRep(rs, rep) == Append(rs, rep)

\* detector = None
NoDetector ==
    [min_threshold |-> 0, max_threshold |-> 0, state |-> Absent,
     prev_angle |-> Absent, current_rep |-> <<>>]

\* reps_summary.json not written yet
NoDoc == <<"no file">>

\* the module-level state of datahandler.py, but for the detector
InitData ==
    /\ pose_log = <<>>
    /\ readLines = 0
    /\ reps_summary = NoDoc
    /\ written_at = Absent
    /\ error = "none"
    /\ session = "new"
    /\ writes = 0

MJPEG_BOUNDARY == "frame"

\* nothing sent on the connection yet
NoResponse ==
    [status |-> 0, content_type |-> "", boundary |-> "", cache_control |-> "",
     allow_origin |-> "", allow_methods |-> ""]

\* CVStreamServer.__init__, and main before the worker thread starts
InitStream ==
    /\ latest_jpeg = Absent
    /\ lock = "free"
    /\ core = "none"
    /\ w_pc = "create_view_core"
    /\ w_jpeg = Absent
    /\ frames = 0
    /\ h_pc = "idle"
    /\ h_jpeg = Absent
    /\ sent = <<>>
    /\ completed = Absent
    /\ m_pc = "serve_forever"
    /\ closes = 0
    /\ w_exit = "none"
    /\ request = [method |-> "none", path |-> ""]
    /\ response = NoResponse
    /\ h_end = "none"
    /\ backlog = <<>>
    /\ answered = {}

InitFeeds ==
    /\ reps = <<>>
    /\ clock = 0
    /\ feed_in = JointAngles(Absent, Absent)
    /\ feed_pre = detector
    /\ feed_ret = NoRep
    /\ hist = <<>>
    /\ emitted = <<>>
    /\ heap = << <<>> >>
    /\ cur_ref = 1
    /\ event_refs = <<>>

\* the page as no stop() has left it yet
NoSnapshot ==
    [is_running |-> TRUE, ui_timer |-> "none", shown |-> "none", t_running |-> TRUE,
     t_camera |-> "none", rep_count |-> Absent]

\* LiveSessionPage.__init__, with the CVThread it creates
InitPage ==
    /\ is_running = FALSE
    /\ rep_count = 0
    /\ page_workout = "None"
    /\ ui_timer = "stopped"
    /\ shown = "Camera feed loading..."
    /\ t_running = FALSE
    /\ t_camera = "none"
    /\ t_stops = 0
    /\ t_closes = 0
    /\ signals = <<>>
    /\ page_exc = "none"
    /\ last_call = "__init__"
    /\ after_stop = NoSnapshot
    /\ failure = "none"
    /\ starts = 0
    /\ emits = 0

\* no rep_summary call made yet
NoSummary ==
    [min_angle |-> Absent, max_angle |-> Absent, duration |-> Absent,
     range_of_motion |-> Absent, num_frames |-> 0]

InitSum ==
    /\ sum_in = <<>>
    /\ sum_out = NoSummary
    /\ sum_prev = NoSummary

\* run_view before it is called
InitView ==
    /\ v_pc = "PoseCore"
    /\ v_core = "none"
    /\ v_closes = 0
    /\ exit_requested = FALSE
    /\ v_exit = "none"

\* the module-level state of a script that is loaded
Loaded ==
    /\ detector = NewDetector(WORKOUT_TO_PARAMETERS.pushups.min_threshold,
                              WORKOUT_TO_PARAMETERS.pushups.max_threshold)
    /\ InitFeeds
    /\ workout_file = "pushups"
    /\ InitData
    /\ InitStream
    /\ InitView
    /\ InitPage

\* script is started
Launch(script) ==
    /\ program = script
    /\ Loaded
    /\ InitSum

Init == Launch("cv-view")

\* run_view: PoseCore(camera_id); a RuntimeError is printed and run_view
\* returns, otherwise the window is set up and the SIGINT handler installed
ViewCreate ==
    /\ v_pc = "PoseCore"
    /\ \E opened \in BOOLEAN :
           IF opened
           THEN v_core' = "open" /\ v_pc' = "loop" /\ v_exit' = v_exit
           ELSE v_core' = v_core /\ v_pc' = "returned" /\ v_exit' = "init_failed"
    /\ UNCHANGED <<program, detvars, datavars, streamvars, pagevars, sumvars,
                   v_closes, exit_requested>>

\* the accumulator emptied in place: self.current_rep stays the list that
\* is returned
ClearInPlace(h, ref) == [heap |-> [h EXCEPT ![ref] = <<>>], ref |-> ref]

\* self.current_rep = []: a new list object, self.current_rep bound to it
Rebind(h, ref) == [heap |-> Append(h, <<>>), ref |-> Len(h) + 1]

\* what a feed call does to the list objects.  A call that returns a rep
\* has appended the closing sample to the list of self.current_rep,
\* returns that list object and binds self.current_rep to a new list; the
\* WAITING_TOP branch binds self.current_rep to a new one-sample list; every
\* other append is made in place.
TrackLists(pre, r) ==
    IF r.rep.some
    THEN LET b == Rebind([heap EXCEPT ![cur_ref] = r.rep.samples], cur_ref)
         IN  /\ heap' = b.heap
             /\ cur_ref' = b.ref
             /\ event_refs' = Append(event_refs, cur_ref)
    ELSE IF pre.state = WAITING_TOP /\ r.det.state = DESCENDING
    THEN /\ heap' = Append(heap, r.det.current_rep)
         /\ cur_ref' = Len(heap) + 1
         /\ event_refs' = event_refs
    ELSE /\ heap' = [heap EXCEPT ![cur_ref] = r.det.current_rep]
         /\ UNCHANGED <<cur_ref, event_refs>>

\* rep = detector.feed(angles, timestamp); if rep is not None: reps.append(rep)
FeedAndRecord(joint_angles, timestamp) ==
    LET r == Feed(detector, joint_angles, timestamp)
    IN  /\ detector' = r.det
        /\ reps' = IF r.rep.some THEN RecordRep(reps, r.rep.samples) ELSE reps
        /\ clock' = clock + TickMs
        /\ feed_in' = joint_angles
        /\ feed_pre' = detector
        /\ feed_ret' = r.rep
        /\ hist' = Append(hist, GetAngle(joint_angles))
        /\ emitted' = IF r.rep.some THEN Append(emitted, r.rep.samples) ELSE emitted
        /\ TrackLists(detector, r)

\* one tick of run_view whose frame carries frame_json and that ends with
\* no ESC key
ViewTick(joint_angles) ==
    /\ v_pc = "loop"
    /\ ~exit_requested
    /\ clock < MaxTicks * TickMs
    /\ FeedAndRecord(joint_angles, clock)
    /\ UNCHANGED <<program, datavars, streamvars, viewvars, pagevars, sumvars>>

Next ==
    \/ ViewCreate
    \/ \E joint_angles \in FrameAngles : ViewTick(joint_angles)

\* SIGINT while run_view is in its loop: _on_sigint sets exit_requested
ViewSigint ==
    /\ v_pc = "loop"
    /\ ~exit_requested
    /\ exit_requested' = TRUE
    /\ UNCHANGED <<program, detvars, datavars, streamvars, pagevars, sumvars,
                   v_pc, v_core, v_closes, v_exit>>

\* run_view: the loop is left and the finally clause closes the core
ViewReturn(why) ==
    /\ v_core' = "closed"
    /\ v_closes' = v_closes + 1
    /\ v_pc' = "returned"
    /\ v_exit' = why

\* run_view leaves its loop before the detector is fed: the while test sees
\* exit_requested, core.step() returns None, or an exception
\* (KeyboardInterrupt, which is passed over, or any other) comes up
ViewLeave(why) ==
    /\ v_pc = "loop"
    /\ exit_requested <=> why = "exit_requested"
    /\ ViewReturn(why)
    /\ UNCHANGED <<program, detvars, datavars, streamvars, pagevars, sumvars,
                   exit_requested>>

\* the ways out of the loop of run_view before the detector is fed
ViewLeaves == {"exit_requested", "step_none", "KeyboardInterrupt", "exception"}

\* one tick of run_view whose frame carries no frame_json
ViewTickNoJson ==
    /\ v_pc = "loop"
    /\ ~exit_requested
    /\ clock < MaxTicks * TickMs
    /\ clock' = clock + TickMs
    /\ UNCHANGED <<program, detector, reps, feed_in, feed_pre, feed_ret, hist,
                   emitted, heap, cur_ref, event_refs, datavars, streamvars,
                   viewvars, pagevars, sumvars>>

\* one tick of run_view that ends with the ESC key: break, and the finally
\* clause
ViewTickEsc(joint_angles) ==
    /\ v_pc = "loop"
    /\ ~exit_requested
    /\ clock < MaxTicks * TickMs
    /\ FeedAndRecord(joint_angles, clock)
    /\ ViewReturn("esc")
    /\ UNCHANGED <<program, datavars, streamvars, pagevars, sumvars, exit_requested>>

\* the frames of the runs in which run_view is followed to its return
LoopAngles == {JointAngles(120, 120), JointAngles(145, 145)}

NextView ==
    \/ ViewCreate
    \/ ViewSigint
    \/ \E why \in ViewLeaves : ViewLeave(why)
    \/ ViewTickNoJson
    \/ \E joint_angles \in LoopAngles : ViewTick(joint_angles)
    \/ \E joint_angles \in LoopAngles : ViewTickEsc(joint_angles)

Spec == Init /\ [][Next]_vars

(* ---------------------------- the scenario ----------------------------- *)

\* frame i of the scenario: both elbows at the scenario's angle, or one of
\* them not detected in that frame
ScenarioFrames(i) ==
    IF i > Len(ScenarioAngles) THEN {}
    ELSE {JointAngles(ScenarioAngles[i], ScenarioAngles[i]),
          JointAngles(Absent, ScenarioAngles[i]),
          JointAngles(ScenarioAngles[i], Absent)}

\* the next frame of the scenario goes through run_view's tick
ScenarioTick(joint_angles) ==
    /\ Len(hist) < Len(ScenarioAngles)
    /\ v_pc = "loop"
    /\ ~exit_requested
    /\ FeedAndRecord(joint_angles, ScenarioTimes[Len(hist) + 1])
    /\ UNCHANGED <<program, datavars, streamvars, viewvars, pagevars, sumvars>>

NextScenario ==
    \/ ViewCreate
    \/ \E joint_angles \in ScenarioFrames(Len(hist) + 1) : ScenarioTick(joint_angles)

SpecScenario == Init /\ [][NextScenario]_vars

(* ----------------------------- datahandler ---------------------------- *)

\* the joint angles a call of run_workout carries
DataAngles ==
    {JointAngles(120, 120), JointAngles(145, 145), JointAngles(Absent, 145)}

\* the joint angles a line of the pose log carries
LogAngles == {JointAngles(145, 145), JointAngles(Absent, 145)}

\* workout_init: the detector built from the workout named in the file
WorkoutInit(workout_id) ==
    NewDetector(WORKOUT_TO_PARAMETERS[workout_id].min_threshold,
                WORKOUT_TO_PARAMETERS[workout_id].max_threshold)

\* run_workout(joint_angles, timestamp), called on its own.  The detector is
\* built on the first call; a workout id that WORKOUT_TO_PARAMETERS does not
\* hold raises KeyError out of workout_init.
RunWorkout(joint_angles) ==
    /\ error = "none"
    /\ workout_file # "OFF"
    /\ clock < MaxTicks * TickMs
    /\ IF detector = NoDetector /\ workout_file \notin DOMAIN WORKOUT_TO_PARAMETERS
       THEN /\ error' = "KeyError"
            /\ UNCHANGED <<program, detvars, workout_file, pose_log, readLines,
                           reps_summary, written_at, session, writes, streamvars,
                           viewvars, pagevars, sumvars>>
       ELSE LET det == IF detector = NoDetector THEN WorkoutInit(workout_file)
                       ELSE detector
                r   == Feed(det, joint_angles, clock)
            IN  /\ detector' = r.det
                /\ reps' = IF r.rep.some THEN RecordRep(reps, r.rep.samples) ELSE reps
                /\ clock' = clock + TickMs
                /\ feed_in' = joint_angles
                /\ feed_pre' = det
                /\ feed_ret' = r.rep
                /\ hist' = Append(hist, GetAngle(joint_angles))
                /\ emitted' = IF r.rep.some THEN Append(emitted, r.rep.samples)
                              ELSE emitted
                /\ TrackLists(det, r)
                /\ session' = IF session = "new" THEN "first_fed" ELSE "running"
                /\ UNCHANGED <<program, workout_file, pose_log, readLines,
                               reps_summary, written_at, error, writes, streamvars,
                               viewvars, pagevars, sumvars>>

\* the pose logger (another process) appends a line to pose_log.json
AppendLog(joint_angles) ==
    /\ error = "none"
    /\ Len(pose_log) < MaxLog
    /\ pose_log' = Append(pose_log, [angles |-> joint_angles,
                                      timestamp_utc |-> TickMs * Len(pose_log)])
    /\ UNCHANGED <<program, detvars, workout_file, readLines, reps_summary,
                   written_at, error, session, writes, streamvars, viewvars,
                   pagevars, sumvars>>

\* [rep_summary(rep) for rep in reps]
Summaries(rs) == [i \in 1..Len(rs) |-> RepSummary(rs[i])]

\* store_reps().  readLines is assigned in the function and not declared
\* global, so it is a local name: the test readingLine > readLines on the
\* first line of the log raises UnboundLocalError, before run_workout is
\* called and before reps_summary.json is opened.  With no line in the log
\* the loop body never runs and the summaries of reps are written.
StoreReps ==
    /\ error = "none"
    /\ workout_file # "OFF"
    /\ IF pose_log # <<>>
       THEN /\ error' = "UnboundLocalError"
            /\ UNCHANGED <<reps_summary, written_at>>
       ELSE /\ reps_summary' = Summaries(reps)
            /\ written_at' = Len(emitted)
            /\ UNCHANGED error
    /\ UNCHANGED <<program, detvars, workout_file, pose_log, readLines, session,
                   writes, streamvars, viewvars, pagevars, sumvars>>

\* the workout ids the app writes to the workout file; OFF ends the session
WorkoutIds == {"pushups", "squats", "OFF"}

\* the app (another process) rewrites the workout file: OFF stops the
\* session, a workout id starts one.  datahandler.py has no code that runs
\* on this: the main loop only tests for OFF, and workout_init is called
\* while detector is None.  (The main loop reads workout_id.jsonl and
\* workout_init ../workout_id.json; they are taken to be the one file the
\* app writes.)
SetWorkout(workout_id) ==
    /\ error = "none"
    /\ writes < MaxWrites
    /\ workout_id # workout_file
    /\ workout_file' = workout_id
    /\ writes' = writes + 1
    /\ session' = IF workout_id = "OFF" THEN session ELSE "new"
    /\ UNCHANGED <<program, detvars, pose_log, readLines, reps_summary, written_at,
                   error, streamvars, viewvars, pagevars, sumvars>>

InitDataSpec ==
    /\ program = "datahandler"
    /\ detector = NoDetector
    /\ InitFeeds
    /\ workout_file \in {"pushups", "squats"}
    /\ InitData
    /\ InitStream
    /\ InitView
    /\ InitPage
    /\ InitSum

NextData ==
    \/ \E joint_angles \in DataAngles : RunWorkout(joint_angles)
    \/ \E joint_angles \in LogAngles : AppendLog(joint_angles)
    \/ StoreReps

SpecData == InitDataSpec /\ [][NextData]_vars

\* the joint angles of the calls of run_workout in the runs in which the
\* workout file is rewritten
SessionAngles == {JointAngles(120, 120), JointAngles(145, 145)}

\* run_workout is called while the app starts and stops sessions
NextSessions ==
    \/ \E joint_angles \in SessionAngles : RunWorkout(joint_angles)
    \/ \E workout_id \in WorkoutIds : SetWorkout(workout_id)

SpecSessions == InitDataSpec /\ [][NextSessions]_vars

(* ------------------------- cv_stream_server.py ------------------------ *)

\* run_cv_loop: create_view_core(camera_id) returns the core, or raises
\* RuntimeError and the thread function returns
CreateViewCore ==
    /\ m_pc # "exited"
    /\ w_pc = "create_view_core"
    /\ \E opened \in BOOLEAN :
           IF opened
           THEN core' = "open" /\ w_pc' = "produce" /\ w_exit' = w_exit
           ELSE core' = core /\ w_pc' = "returned" /\ w_exit' = "init_failed"
    /\ UNCHANGED <<notstream, latest_jpeg, lock,
                   w_jpeg, frames, h_pc, h_jpeg, sent, completed, m_pc, closes,
                   request, response, h_end>>

\* the finally clause left out: the loop is left with the core still open
LeaveLoopNoClose(why) ==
    /\ w_pc' = "returned"
    /\ w_exit' = why
    /\ UNCHANGED <<core, closes>>

\* run_cv_loop: the loop is left (break, or an exception going up) and the
\* finally clause closes the core
LeaveLoop(why) ==
    /\ core' = "closed"
    /\ closes' = closes + 1
    /\ w_pc' = "returned"
    /\ w_exit' = why

\* run_cv_loop: produce_combined_frame(core); with cont false the loop is
\* left and the finally clause closes the core; an exception raised in the
\* tick leaves through the same finally clause; otherwise the frame is
\* encoded and set_latest_jpeg is called with its bytes
ProduceFrame ==
    /\ m_pc # "exited"
    /\ w_pc = "produce"
    /\ \E outcome \in {"frame", "not_cont", "exception"} :
           IF outcome = "frame"
           THEN /\ frames < MaxFrames
                /\ frames' = frames + 1
                /\ w_jpeg' = frames + 1
                /\ w_pc' = "set_acquire"
                /\ UNCHANGED <<core, closes, w_exit>>
           ELSE /\ LeaveLoop(outcome)
                /\ UNCHANGED <<frames, w_jpeg>>
    /\ UNCHANGED <<notstream, latest_jpeg, lock,
                   h_pc, h_jpeg, sent, completed, m_pc, request, response, h_end>>

\* set_latest_jpeg entered without taking the lock
SetAcquireNoLock ==
    /\ m_pc # "exited"
    /\ w_pc = "set_acquire"
    /\ w_pc' = "set_write"
    /\ UNCHANGED <<notstream, latest_jpeg, lock,
                   core, w_jpeg, frames, h_pc, h_jpeg, sent, completed, m_pc, closes,
                   w_exit, request, response, h_end>>

\* set_latest_jpeg: with self._lock (acquire)
SetAcquire ==
    /\ m_pc # "exited"
    /\ w_pc = "set_acquire"
    /\ lock = "free"
    /\ lock' = "worker"
    /\ w_pc' = "set_write"
    /\ UNCHANGED <<notstream, latest_jpeg, core,
                   w_jpeg, frames, h_pc, h_jpeg, sent, completed, m_pc, closes,
                   w_exit, request, response, h_end>>

\* set_latest_jpeg: self._latest_jpeg = data
SetWrite ==
    /\ m_pc # "exited"
    /\ w_pc = "set_write"
    /\ latest_jpeg' = w_jpeg
    /\ w_pc' = "set_release"
    /\ UNCHANGED <<notstream, lock, core, w_jpeg,
                   frames, h_pc, h_jpeg, sent, completed, m_pc, closes, w_exit,
                   request, response, h_end>>

\* set_latest_jpeg: the lock is released and the call returns
SetRelease ==
    /\ m_pc # "exited"
    /\ w_pc = "set_release"
    /\ lock' = "free"
    /\ completed' = w_jpeg
    /\ w_pc' = "produce"
    /\ UNCHANGED <<notstream, latest_jpeg, core,
                   w_jpeg, frames, h_pc, h_jpeg, sent, m_pc, closes, w_exit,
                   request, response, h_end>>

\* the paths a client asks for
Paths == {"/cv-stream", "/", "/cv-stream/", "/cv-stream?x=1"}

\* send_error(404)
NotFound ==
    [status |-> 404, content_type |-> "text/html;charset=utf-8", boundary |-> "",
     cache_control |-> "", allow_origin |-> "", allow_methods |-> ""]

\* the 200 response of do_GET and its headers
StreamHeaders ==
    [status |-> 200, content_type |-> "multipart/x-mixed-replace",
     boundary |-> MJPEG_BOUNDARY, cache_control |-> "no-store",
     allow_origin |-> "*", allow_methods |-> ""]

\* the response of do_OPTIONS
OptionsHeaders ==
    [status |-> 204, content_type |-> "", boundary |-> "", cache_control |-> "",
     allow_origin |-> "*", allow_methods |-> "GET, OPTIONS"]

\* do_GET for /cv-stream: the 200 response and its headers are sent
GetStream ==
    /\ m_pc = "serve_forever"
    /\ h_pc = "idle"
    /\ h_pc' = "get_acquire"
    /\ request' = [method |-> "GET", path |-> "/cv-stream"]
    /\ response' = StreamHeaders
    /\ h_end' = "none"
    /\ UNCHANGED <<notstream, latest_jpeg, lock, core, w_pc, w_jpeg, frames, h_jpeg,
                   sent, completed, m_pc, closes, w_exit>>

\* do_GET for any other path: send_error(404) and return
GetOther(path) ==
    /\ m_pc = "serve_forever"
    /\ h_pc = "idle"
    /\ path # "/cv-stream"
    /\ request' = [method |-> "GET", path |-> path]
    /\ response' = NotFound
    /\ UNCHANGED <<notstream, latest_jpeg, lock,
                   core, w_pc, w_jpeg, frames, h_pc, h_jpeg, sent, completed, m_pc,
                   closes, w_exit, h_end>>

\* do_OPTIONS, whatever the path
DoOptions(path) ==
    /\ m_pc = "serve_forever"
    /\ h_pc = "idle"
    /\ request' = [method |-> "OPTIONS", path |-> path]
    /\ response' = OptionsHeaders
    /\ UNCHANGED <<notstream, latest_jpeg, lock,
                   core, w_pc, w_jpeg, frames, h_pc, h_jpeg, sent, completed, m_pc,
                   closes, w_exit, h_end>>

\* get_latest_jpeg: with self._lock (acquire)
GetAcquire ==
    /\ m_pc = "serve_forever"
    /\ h_pc = "get_acquire"
    /\ Len(sent) < MaxSent
    /\ lock = "free"
    /\ lock' = "handler"
    /\ h_pc' = "get_read"
    /\ UNCHANGED <<notstream, latest_jpeg, core,
                   w_pc, w_jpeg, frames, h_jpeg, sent, completed, m_pc, closes,
                   w_exit, request, response, h_end>>

\* get_latest_jpeg: the value of self._latest_jpeg is taken
GetRead ==
    /\ m_pc = "serve_forever"
    /\ h_pc = "get_read"
    /\ h_jpeg' = latest_jpeg
    /\ h_pc' = "get_release"
    /\ UNCHANGED <<notstream, latest_jpeg, lock,
                   core, w_pc, w_jpeg, frames, sent, completed, m_pc, closes, w_exit,
                   request, response, h_end>>

\* get_latest_jpeg: the lock is released and the value returned
GetRelease ==
    /\ m_pc = "serve_forever"
    /\ h_pc = "get_release"
    /\ lock' = "free"
    /\ h_pc' = "write"
    /\ UNCHANGED <<notstream, latest_jpeg, core,
                   w_pc, w_jpeg, frames, h_jpeg, sent, completed, m_pc, closes,
                   w_exit, request, response, h_end>>

\* the bytes jpeg.tobytes() gives for frame k: a stand-in whose length and
\* content differ from frame to frame
JpegBytes(k) == <<255, 216>> \o [i \in 1..k |-> k] \o <<255, 217>>

\* a part whose Content-Length counts the closing CRLF as well
PartWithCrlf(jpeg) ==
    [content_type |-> "image/jpeg", content_length |-> Len(JpegBytes(jpeg)) + 2,
     body |-> JpegBytes(jpeg)]

\* do_GET: the part written for jpeg
Part(jpeg) ==
    [content_type |-> "image/jpeg", content_length |-> Len(JpegBytes(jpeg)),
     body |-> JpegBytes(jpeg)]

\* the write error ignored: the handler goes on polling
ClientGoneIgnored ==
    /\ h_pc' = "get_acquire"
    /\ sent' = sent
    /\ h_end' = "disconnect"

\* do_GET: the write raises BrokenPipeError, ConnectionResetError or OSError,
\* which is passed over, and do_GET returns
ClientGone ==
    /\ h_pc' = "idle"
    /\ sent' = sent
    /\ h_end' = "disconnect"

\* do_GET: if jpeg, the part is written to the client, which may have gone
\* (BrokenPipeError, ConnectionResetError, OSError end the handler); then
\* the handler sleeps and polls again
WritePart ==
    /\ m_pc = "serve_forever"
    /\ h_pc = "write"
    /\ IF h_jpeg = Absent
       THEN h_pc' = "get_acquire" /\ sent' = sent /\ h_end' = h_end
       ELSE \E written \in BOOLEAN :
                IF written
                THEN /\ h_pc' = "get_acquire"
                     /\ sent' = Append(sent, Part(h_jpeg))
                     /\ h_end' = h_end
                ELSE ClientGone
    /\ UNCHANGED <<notstream, latest_jpeg, lock,
                   core, w_pc, w_jpeg, frames, h_jpeg, completed, m_pc, closes,
                   w_exit, request, response>>

\* main: KeyboardInterrupt comes up in the main thread, which is the thread
\* that serves the requests; it leaves the handler (the lock of a with block
\* is released on the way) and serve_forever, and is passed over
Interrupt ==
    /\ m_pc = "serve_forever"
    /\ m_pc' = "shutdown"
    /\ h_pc' = "idle"
    /\ h_end' = IF h_pc = "idle" THEN h_end ELSE "interrupt"
    /\ lock' = IF lock = "handler" THEN "free" ELSE lock
    /\ UNCHANGED <<notstream, latest_jpeg, core,
                   w_pc, w_jpeg, frames, h_jpeg, sent, completed, closes, w_exit,
                   request, response>>

\* main: server.shutdown() returns, main returns and the interpreter exits.
\* The worker is a daemon thread that is neither told to stop nor joined: it
\* is abandoned wherever it is.
MainExit ==
    /\ m_pc = "shutdown"
    /\ m_pc' = "exited"
    /\ UNCHANGED <<notstream, latest_jpeg, lock,
                   core, w_pc, w_jpeg, frames, h_pc, h_jpeg, sent, completed, closes,
                   w_exit, request, response, h_end>>

NextStream ==
    \/ CreateViewCore
    \/ ProduceFrame
    \/ SetAcquire
    \/ SetWrite
    \/ SetRelease
    \/ GetStream
    \/ \E path \in Paths : GetOther(path)
    \/ \E path \in Paths : DoOptions(path)
    \/ GetAcquire
    \/ GetRead
    \/ GetRelease
    \/ WritePart
    \/ Interrupt
    \/ MainExit

SpecStream == Launch("cv_stream_server") /\ [][NextStream]_vars

(* ------------------- cv_stream_server.py, its clients ------------------ *)

Clients == 1..MaxClients

\* the requests a client sends
Requests ==
    {[method |-> "GET", path |-> "/cv-stream"], [method |-> "GET", path |-> "/"],
     [method |-> "OPTIONS", path |-> "/cv-stream"]}

\* client has connected and its request has not been accepted yet
InBacklog(client) == \E i \in 1..Len(backlog) : backlog[i].client = client

\* a client connects and sends its request: the connection waits in the
\* listen queue of the socket until the server accepts it
Arrive(client, req) ==
    /\ m_pc = "serve_forever"
    /\ ~InBacklog(client)
    /\ client \notin answered
    /\ backlog' = Append(backlog, [client |-> client, req |-> req])
    /\ UNCHANGED <<program, detvars, datavars, viewvars, pagevars, sumvars,
                   latest_jpeg, lock, core, w_pc, w_jpeg, frames, h_pc, h_jpeg, sent,
                   completed, m_pc, closes, w_exit, request, response, h_end, answered>>

\* the status line and headers do_GET or do_OPTIONS answers req with
Answer(req) ==
    IF req.method = "OPTIONS" THEN OptionsHeaders
    ELSE IF req.path # "/cv-stream" THEN NotFound
    ELSE StreamHeaders

\* serve_forever: HTTPServer handles one request at a time in the thread
\* that called serve_forever.  The next connection is accepted only when
\* the handler of the one before has returned; its do_GET or do_OPTIONS
\* is then run, and do_GET for /cv-stream stays in its loop.
Accept ==
    /\ m_pc = "serve_forever"
    /\ h_pc = "idle"
    /\ backlog # <<>>
    /\ LET c == Head(backlog)
           streams == c.req.method = "GET" /\ c.req.path = "/cv-stream"
       IN  /\ backlog' = Tail(backlog)
           /\ answered' = answered \cup {c.client}
           /\ request' = c.req
           /\ response' = Answer(c.req)
           /\ h_pc' = IF streams THEN "get_acquire" ELSE h_pc
           /\ h_end' = IF streams THEN "none" ELSE h_end
    /\ UNCHANGED <<program, detvars, datavars, viewvars, pagevars, sumvars,
                   latest_jpeg, lock, core, w_pc, w_jpeg, frames, h_jpeg, sent,
                   completed, m_pc, closes, w_exit>>

\* the worker, the server and the clients that connect to it
NextClients ==
    \/ CreateViewCore
    \/ ProduceFrame
    \/ SetAcquire
    \/ SetWrite
    \/ SetRelease
    \/ \E client \in Clients, req \in Requests : Arrive(client, req)
    \/ Accept
    \/ GetAcquire
    \/ GetRead
    \/ GetRelease
    \/ WritePart
    \/ Interrupt
    \/ MainExit

\* the worker thread and the serving thread run whenever they can; nothing
\* is assumed of the clients, of failures or of the interrupt
FairClients ==
    /\ WF_vars(CreateViewCore) /\ WF_vars(ProduceFrame)
    /\ WF_vars(SetAcquire) /\ WF_vars(SetWrite) /\ WF_vars(SetRelease)
    /\ WF_vars(Accept)
    /\ WF_vars(GetAcquire) /\ WF_vars(GetRead) /\ WF_vars(GetRelease)
    /\ WF_vars(WritePart)

SpecClients == Launch("cv_stream_server") /\ [][NextClients]_vars /\ FairClients

(* --------------------------- live_session.py --------------------------- *)

\* what the page does not touch
notpage == <<program, detvars, datavars, streamvars, viewvars, sumvars>>

\* get_exercise_rules(workout_id) finds a rule; it fails with UnknownWorkout
\* if there is none
HasRule(workout_id) == workout_id \in DOMAIN WORKOUT_TO_PARAMETERS

\* the workout ids start is called with
StartIds == {"pushups", "squats"}

\* how the camera answers when the CV thread is started: it opens, or it
\* does not and CameraUnavailable is raised to the caller, or it does not
\* and the failure comes as an error_occurred signal
Cameras == {"opens", "raises", "signals"}

\* cv_thread.start_workout(workout_id): the camera is opened and the worker
\* thread started; a camera that does not open is fatal to the call and no
\* thread is started
StartWorkout(camera) ==
    /\ t_stops' = 0
    /\ t_closes' = 0
    /\ IF camera = "opens"
       THEN /\ t_running' = TRUE
            /\ t_camera' = "open"
            /\ failure' = "none"
            /\ UNCHANGED <<signals, emits>>
       ELSE /\ failure' = "CameraUnavailable"
            /\ signals' = IF camera = "signals" THEN Append(signals, "error_occurred")
                           ELSE signals
            /\ emits' = IF camera = "signals" THEN emits + 1 ELSE emits
            /\ UNCHANGED <<t_running, t_camera>>

\* LiveSessionPage.start(workout_id).  is_running is set before
\* get_exercise_rules and start_workout are called; an exception of either
\* leaves start at that line.
Start(workout_id, camera) ==
    /\ starts < MaxStarts
    /\ ~t_running
    /\ camera = "signals" => emits < MaxSignals
    /\ starts' = starts + 1
    /\ last_call' = "start"
    /\ page_workout' = workout_id
    /\ rep_count' = 0
    /\ is_running' = TRUE
    /\ IF ~HasRule(workout_id)
       THEN /\ page_exc' = "UnknownWorkout"
            /\ failure' = "UnknownWorkout"
            /\ UNCHANGED <<shown, ui_timer, t_running, t_camera, t_stops, t_closes,
                           signals, emits>>
       ELSE /\ shown' = "Initializing camera..."
            /\ StartWorkout(camera)
            /\ IF camera = "raises"
               THEN page_exc' = "CameraUnavailable" /\ ui_timer' = ui_timer
               ELSE page_exc' = "none" /\ ui_timer' = "active"
    /\ UNCHANGED <<notpage, after_stop>>

\* isRunning() answering yes whatever the thread does
IsRunningAlways == TRUE

\* self.cv_thread.isRunning()
IsRunning == t_running

\* cv_thread.stop_workout(): the stop flag is set, the worker sees it at the
\* top of its next tick, closes the camera and ends, and the call returns
\* when it has
StopWorkout ==
    /\ t_stops' = t_stops + 1
    /\ t_running' = FALSE
    /\ t_camera' = IF t_running THEN "closed" ELSE t_camera
    /\ t_closes' = IF t_running THEN t_closes + 1 ELSE t_closes

\* the page as a stop() call leaves it
Snapshot(running, timer, label, thread, camera, count) ==
    [is_running |-> running, ui_timer |-> timer, shown |-> label,
     t_running |-> thread, t_camera |-> camera, rep_count |-> count]

\* LiveSessionPage.stop()
Stop ==
    /\ is_running' = FALSE
    /\ ui_timer' = "stopped"
    /\ IF IsRunning THEN StopWorkout
       ELSE UNCHANGED <<t_stops, t_running, t_camera, t_closes>>
    /\ shown' = "Session ended"
    /\ page_exc' = "none"
    /\ last_call' = IF last_call \in {"stop", "stop_again"} THEN "stop_again"
                     ELSE "stop"
    /\ after_stop' = IF last_call \in {"stop", "stop_again"} THEN after_stop
                      ELSE Snapshot(is_running', ui_timer', shown', t_running', t_camera',
                                    rep_count)
    /\ UNCHANGED <<notpage, rep_count, page_workout, signals, failure, starts, emits>>

\* what a tick of the CV thread gives: a frame, a frame that closes a rep,
\* or a failed read
Ticks == {"frame", "rep", "read_failed"}

\* one tick of the CV thread: frame_ready is emitted, and rep_detected if
\* the frame closes a rep; a failed read is reported as error_occurred and
\* ends the thread, the camera released
WorkerTick(tick) ==
    /\ t_running
    /\ emits < MaxSignals
    /\ emits' = emits + 1
    /\ signals' = Append(signals, CASE tick = "frame" -> "frame_ready"
                                     [] tick = "rep" -> "rep_detected"
                                     [] OTHER -> "error_occurred")
    /\ IF tick = "read_failed"
       THEN /\ t_running' = FALSE
            /\ t_camera' = "closed"
            /\ t_closes' = t_closes + 1
            /\ failure' = "FrameReadFailure"
       ELSE UNCHANGED <<t_running, t_camera, t_closes, failure>>
    /\ UNCHANGED <<notpage, is_running, rep_count, page_workout, ui_timer, shown,
                   t_stops, page_exc, last_call, after_stop, starts>>

\* _on_frame_ready: nothing is shown unless is_running
OnFrameReady ==
    shown' = IF is_running THEN "frame" ELSE shown

\* _on_error: the message is shown in feedback_label and video_label
OnError ==
    shown' = "Camera Error"

\* the event loop delivers the oldest signal of the CV thread to its slot:
\* _on_frame_ready, _on_rep_detected or _on_error
Deliver ==
    /\ signals # <<>>
    /\ signals' = Tail(signals)
    /\ last_call' = "slot"
    /\ CASE Head(signals) = "frame_ready" -> OnFrameReady /\ rep_count' = rep_count
         [] Head(signals) = "rep_detected" -> rep_count' = rep_count + 1 /\ shown' = shown
         [] OTHER -> OnError /\ rep_count' = rep_count
    /\ UNCHANGED <<notpage, is_running, page_workout, ui_timer, t_running, t_camera,
                   t_stops, t_closes, page_exc, after_stop, failure, starts, emits>>

NextPage ==
    \/ \E workout_id \in StartIds, camera \in Cameras : Start(workout_id, camera)
    \/ Stop
    \/ \E tick \in Ticks : WorkerTick(tick)
    \/ Deliver

SpecPage == Launch("app") /\ [][NextPage]_vars

(* ----------------------------- rep_summary ----------------------------- *)

\* the samples of the reps that rep_summary is called with
SummarySamples ==
    {Sample(angle, timestamp) : angle \in {230, 240, 290}, timestamp \in {0, 100, 200}}

\* the non-empty reps that rep_summary is called with
SummaryReps == UNION {[1..n -> SummarySamples] : n \in 1..MaxRepLen}

InitSummary ==
    /\ program = "cv-view"
    /\ Loaded
    /\ sum_in \in SummaryReps
    /\ sum_out = NoSummary
    /\ sum_prev = NoSummary

\* rep_summary(rep), called once and then once more with the same rep
Summarise ==
    /\ sum_prev = NoSummary
    /\ sum_prev' = sum_out
    /\ sum_out' = RepSummary(sum_in)
    /\ UNCHANGED <<program, detvars, datavars, streamvars, viewvars, pagevars, sum_in>>

NextSummary == Summarise

SpecSummary == InitSummary /\ [][NextSummary]_vars

(* --------------------------- the tick loops ---------------------------- *)

\* the scripts that run a tick loop over a camera
Loops == {"cv_stream_server", "cv-view"}

InitLoops == \E script \in Loops : Launch(script)

\* the script that was started runs
NextLoops ==
    \/ program = "cv_stream_server" /\ NextStream
    \/ program = "cv-view" /\ NextView

SpecLoops == InitLoops /\ [][NextLoops]_vars

(* ------------------------------- claims ------------------------------- *)

MinT == 2 * WORKOUT_TO_PARAMETERS.pushups.min_threshold
MaxT == 2 * WORKOUT_TO_PARAMETERS.pushups.max_threshold

AllPresent(h) == \A i \in 1..Len(h) : h[i] # Absent

Fed == hist # <<>>

LastAngle == hist[Len(hist)]

RECURSIVE CyclesFrom(_, _, _, _)
\* The number of complete rep cycles the sentence of the specification finds
\* in h[i..]: phase 0 waits for a sample >= max, phase 1 for a later sample
\* <= min, phase 2 for a later sample above its predecessor, phase 3 for a
\* later sample >= max, which completes a cycle and opens the next at phase 1.
CyclesFrom(h, i, phase, n) ==
    IF i > Len(h) THEN n
    ELSE IF phase = 0 THEN CyclesFrom(h, i + 1, IF h[i] >= MaxT THEN 1 ELSE 0, n)
    ELSE IF phase = 1 THEN CyclesFrom(h, i + 1, IF h[i] <= MinT THEN 2 ELSE 1, n)
    ELSE IF phase = 2 THEN CyclesFrom(h, i + 1, IF h[i] > h[i - 1] THEN 3 ELSE 2, n)
    ELSE IF h[i] >= MaxT THEN CyclesFrom(h, i + 1, 1, n + 1)
    ELSE CyclesFrom(h, i + 1, 3, n)

\* C1 (as stated): over a sequence of present angles fed to a fresh detector,
\* feed returns one RepEvent per cycle top / bottom / strict increase / top
\* (each further cycle bottom / strict increase / top giving one more),
\* wherever in the sequence the first top sample stands.
C1_RepPerCycle ==
    AllPresent(hist) => Len(emitted) = CyclesFrom(hist, 1, 0, 0)

\* C1 (amended): the same, the first top sample being looked for after the
\* first sample fed, which only seeds prev_angle; and once a rep has been
\* returned the detector is never in WAITING_TOP again.
C1_RepPerCycleAfterSeed ==
    /\ AllPresent(hist) => Len(emitted) = CyclesFrom(hist, 2, 0, 0)
    /\ emitted # <<>> => detector.state # WAITING_TOP

\* two cycles of present angles, back to back, have been fed
C1_Witness ==
    /\ AllPresent(hist)
    /\ CyclesFrom(hist, 2, 0, 0) = 2
    /\ Len(emitted) = 2

\* C2: a feed whose tracked angle is absent returns no RepEvent and leaves
\* state, prev_angle and current_rep as they were before the call.
C2_AbsentTickChangesNothing ==
    (Fed /\ GetAngle(feed_in) = Absent) =>
        /\ feed_ret = NoRep
        /\ detector.state = feed_pre.state
        /\ detector.prev_angle = feed_pre.prev_angle
        /\ detector.current_rep = feed_pre.current_rep

\* an absent tick in the middle of a rep
C2_Witness ==
    /\ Fed
    /\ GetAngle(feed_in) = Absent
    /\ feed_pre.state = BOTTOM_REACHED
    /\ Len(feed_pre.current_rep) >= 2
    /\ feed_pre.prev_angle # Absent

\* C3 (as stated): an angle exactly equal to max_threshold moves WAITING_TOP
\* to DESCENDING, and closes the rep from ASCENDING; an angle exactly equal
\* to min_threshold moves DESCENDING to BOTTOM_REACHED.
C3_InclusiveThresholds ==
    /\ (Fed /\ LastAngle = MaxT /\ feed_pre.state = WAITING_TOP) =>
           detector.state = DESCENDING
    /\ (Fed /\ LastAngle = MaxT /\ feed_pre.state = ASCENDING) =>
           (feed_ret.some /\ detector.state = DESCENDING)
    /\ (Fed /\ LastAngle = MinT /\ feed_pre.state = DESCENDING) =>
           detector.state = BOTTOM_REACHED

\* C3 (amended): the same, the WAITING_TOP case holding once a previous
\* angle has been seen (the first present angle only seeds prev_angle).
C3_InclusiveThresholdsAfterSeed ==
    /\ (Fed /\ LastAngle = MaxT /\ feed_pre.state = WAITING_TOP
            /\ feed_pre.prev_angle # Absent) =>
           (detector.state = DESCENDING /\ ~feed_ret.some)
    /\ (Fed /\ LastAngle = MaxT /\ feed_pre.state = ASCENDING) =>
           (feed_ret.some /\ detector.state = DESCENDING)
    /\ (Fed /\ LastAngle = MinT /\ feed_pre.state = DESCENDING) =>
           (detector.state = BOTTOM_REACHED /\ ~feed_ret.some)

\* a rep closed by an angle exactly at max_threshold, after a bottom exactly
\* at min_threshold and a first top exactly at max_threshold
C3_Witness ==
    /\ Fed
    /\ LastAngle = MaxT
    /\ feed_pre.state = ASCENDING
    /\ feed_ret.some
    /\ feed_ret.samples[1].angle = MaxT
    /\ \E i \in 1..Len(feed_ret.samples) : feed_ret.samples[i].angle = MinT

\* C4: the first present angle fed after a gap (one or more absent ticks)
\* only seeds prev_angle: no state transition, no sample, no RepEvent.
C4_FirstAfterGapOnlySeeds ==
    (Len(hist) >= 2 /\ LastAngle # Absent /\ hist[Len(hist) - 1] = Absent) =>
        /\ feed_ret = NoRep
        /\ detector = [feed_pre EXCEPT !.prev_angle = LastAngle]

\* C5: no RepEvent is returned unless a sample <= min_threshold follows the
\* first top crossing, and every RepEvent holds a sample <= min_threshold.
C5_NoRepWithoutBottom ==
    /\ (\A i \in 1..Len(hist) : \A j \in (i + 1)..Len(hist) :
            (hist[i] >= MaxT) => (hist[j] = Absent \/ hist[j] > MinT))
           => emitted = <<>>
    /\ \A k \in 1..Len(emitted) :
           \E j \in 1..Len(emitted[k]) : emitted[k][j].angle <= MinT

\* the angle has gone to the top, back inside the band and to the top again,
\* several times, and never down to min_threshold
C5_Witness ==
    /\ Len(hist) >= 6
    /\ AllPresent(hist)
    /\ \A i \in 1..Len(hist) : hist[i] > MinT
    /\ Cardinality({i \in 2..Len(hist) : hist[i] >= MaxT /\ hist[i - 1] < MaxT}) >= 2

\* the scenario's angles, in half-degrees
ScenarioHist(n) == [i \in 1..n |-> 2 * ScenarioAngles[i]]

\* C6: the scenario returns exactly one RepEvent, on the last feed, whose
\* samples run from t=200 through t=700 and whose summary is min 115,
\* max 150, range of motion 35 (degrees), duration 0.5 s, 6 frames.
C6_Scenario ==
    /\ \A n \in 1..(Len(ScenarioAngles) - 1) :
           hist = ScenarioHist(n) => (emitted = <<>> /\ ~feed_ret.some)
    /\ hist = ScenarioHist(Len(ScenarioAngles)) =>
           /\ feed_ret.some
           /\ emitted = <<feed_ret.samples>>
           /\ emitted[1] = [i \in 1..6 |-> Sample(2 * ScenarioAngles[i + 2], ScenarioTimes[i + 2])]
           /\ RepSummary(emitted[1]) =
                  [min_angle |-> 2 * 115, max_angle |-> 2 * 150,
                   range_of_motion |-> 2 * 35, duration |-> 500, num_frames |-> 6]

\* the whole scenario has been fed, every frame with both elbows detected
C6_Witness ==
    /\ hist = ScenarioHist(Len(ScenarioAngles))
    /\ Len(reps) = 1

\* C7: the samples of every RepEvent are in feed order and both its first and
\* its last sample have an angle >= max_threshold.
C7_BoundedByTops ==
    \A k \in 1..Len(emitted) :
        /\ emitted[k][1].angle >= MaxT
        /\ emitted[k][Len(emitted[k])].angle >= MaxT
        /\ \A j \in 1..(Len(emitted[k]) - 1) :
               emitted[k][j].timestamp < emitted[k][j + 1].timestamp

\* C8: every RepEvent feed returns is recorded exactly once, in emission
\* order, and the rep-summary list store_reps writes holds exactly one
\* summary per RepEvent emitted up to the write, in that order.
C8_RecordedOnceInOrder ==
    /\ reps = emitted
    /\ written_at # Absent =>
           reps_summary = [i \in 1..written_at |-> RepSummary(emitted[i])]

\* two RepEvents have been recorded and then written by store_reps
C8_Witness ==
    /\ Len(emitted) = 2
    /\ emitted[1] # emitted[2]
    /\ written_at = 2
    /\ Len(reps_summary) = 2

\* C9: get_latest_jpeg returns nothing while no publish has completed and
\* otherwise exactly the argument of the last set_latest_jpeg call that
\* returned; it never reads while a publish is writing; and the one slot
\* holds nothing but that last completed value.
C9_GetReturnsLastCompleted ==
    /\ h_pc = "get_release" => h_jpeg = completed
    /\ ~(w_pc \in {"set_write", "set_release"} /\ h_pc \in {"get_read", "get_release"})
    /\ w_pc # "set_release" => latest_jpeg = completed

\* get_latest_jpeg is returning the second frame while the worker waits for
\* the lock to publish the third
C9_Witness ==
    /\ h_pc = "get_release"
    /\ h_jpeg = 2
    /\ completed = 2
    /\ w_pc = "set_acquire"
    /\ w_jpeg = 3

\* C10: once the worker's tick loop has terminated, no frame published
\* before is written to a /cv-stream client any more.
C10_NothingSentAfterStop ==
    [][w_pc = "returned" => sent' = sent]_vars


\* C13: whenever a tick loop (run_cv_loop, run_view) has returned after its
\* camera was opened - by a stop request, a failed read or an exception
\* inside the tick - the camera is closed and was closed exactly once; and
\* no loop ever closes its camera twice or before it returns
C13_CameraClosedOnce ==
    /\ (w_pc = "returned" /\ core # "none") => (core = "closed" /\ closes = 1)
    /\ (v_pc = "returned" /\ v_core # "none") => (v_core = "closed" /\ v_closes = 1)
    /\ w_pc # "returned" => closes = 0
    /\ v_pc # "returned" => v_closes = 0

\* run_cv_loop left by an exception after it has published a frame, its
\* camera closed once
C13_Witness ==
    /\ w_pc = "returned"
    /\ w_exit = "exception"
    /\ completed # Absent
    /\ core = "closed"
    /\ closes = 1


\* C14: when the process of cv_stream_server.py has exited after an
\* interrupt, and when run_view has returned after one, the camera is not
\* left open: close() has completed before
C14_CameraReleasedAtExit ==
    /\ m_pc = "exited" => core # "open"
    /\ (v_pc = "returned" /\ exit_requested) => v_core # "open"

\* C19: the step in which the /cv-stream handler meets a broken pipe or a
\* connection reset ends that handler and nothing else: the worker is where
\* it was with its camera as it was, the published snapshot is the same, and
\* the server is back in serve_forever with no handler running and the lock
\* not held by one
C19_DisconnectIsLocal ==
    [][(h_end # "disconnect" /\ h_end' = "disconnect") =>
          /\ h_pc' = "idle"
          /\ m_pc' = "serve_forever"
          /\ lock' = lock /\ lock' # "handler"
          /\ <<w_pc, w_jpeg, frames, core, closes, w_exit>>' =
                 <<w_pc, w_jpeg, frames, core, closes, w_exit>>
          /\ <<latest_jpeg, completed>>' = <<latest_jpeg, completed>>
          /\ sent' = sent]_vars

\* the client is gone after it was sent a part, the handler has returned,
\* and the worker is in its loop, about to produce the next frame
C19_Witness ==
    /\ h_end = "disconnect"
    /\ h_pc = "idle"
    /\ m_pc = "serve_forever"
    /\ sent # <<>>
    /\ w_pc = "produce"
    /\ core = "open"

\* C20: a GET is answered 200 multipart/x-mixed-replace with boundary frame
\* exactly when its path is /cv-stream, and 404 otherwise; every part written
\* carries Content-Type image/jpeg, a Content-Length that is the number of
\* bytes of its body, and as body the JPEG of a frame the worker made; an
\* OPTIONS request is answered 204 with Access-Control-Allow-Origin: *
C20_Responses ==
    /\ request.method = "GET" =>
           /\ (/\ response.status = 200
               /\ response.content_type = "multipart/x-mixed-replace"
               /\ response.boundary = "frame") <=> request.path = "/cv-stream"
           /\ request.path # "/cv-stream" => response.status = 404
    /\ \A i \in 1..Len(sent) :
           /\ sent[i].content_type = "image/jpeg"
           /\ sent[i].content_length = Len(sent[i].body)
           /\ \E k \in 1..frames : sent[i].body = JpegBytes(k)
    /\ request.method = "OPTIONS" =>
           response.status = 204 /\ response.allow_origin = "*"

\* two parts were written to a /cv-stream client, and a later GET for
\* another path was answered 404
C20_Witness ==
    /\ Len(sent) >= 2
    /\ request = [method |-> "GET", path |-> "/cv-stream/"]
    /\ response.status = 404


\* C18: for every non-empty rep, rep_summary returns as min_angle the
\* smallest and as max_angle the largest angle of its samples, as
\* range_of_motion their difference, as num_frames the number of samples
\* and as duration the last timestamp minus the first (in ms here, where
\* the code divides by 1000 to give seconds), and a second call with the
\* same rep returns the same summary
C18_RepSummary ==
    sum_out # NoSummary =>
        /\ \E i \in 1..Len(sum_in) : sum_in[i].angle = sum_out.min_angle
        /\ \A i \in 1..Len(sum_in) : sum_in[i].angle >= sum_out.min_angle
        /\ \E i \in 1..Len(sum_in) : sum_in[i].angle = sum_out.max_angle
        /\ \A i \in 1..Len(sum_in) : sum_in[i].angle <= sum_out.max_angle
        /\ sum_out.range_of_motion = sum_out.max_angle - sum_out.min_angle
        /\ sum_out.num_frames = Len(sum_in)
        /\ sum_out.duration = sum_in[Len(sum_in)].timestamp - sum_in[1].timestamp
        /\ sum_prev # NoSummary => sum_prev = sum_out

\* rep_summary called twice with a rep of three samples whose largest angle
\* is the middle one and whose last timestamp is after its first
C18_Witness ==
    /\ sum_prev # NoSummary
    /\ Len(sum_in) = 3
    /\ sum_in[2].angle > sum_in[1].angle
    /\ sum_in[2].angle > sum_in[3].angle
    /\ sum_in[1].angle > sum_in[3].angle
    /\ sum_out.duration > 0


\* C16: the first feed of every session - the first one, a restart after
\* OFF, one opened by a change of workout id - is made to a detector in
\* WAITING_TOP with prev_angle absent, no accumulated samples and the
\* thresholds of the session's workout
C16_DetectorResetOnStart ==
    (session = "first_fed" /\ workout_file \in DOMAIN WORKOUT_TO_PARAMETERS) =>
        feed_pre = WorkoutInit(workout_file)


\* C11: after a start() that met a camera that cannot be opened, the
\* session is not running: is_running is false and the CV thread is not
\* running
C11_CameraUnavailableLeavesStopped ==
    (last_call = "start" /\ failure = "CameraUnavailable") =>
        (~is_running /\ ~t_running)

\* C12: once a failed read in the middle of a session has been reported
\* and the report delivered to the page, the worker has ended with its
\* camera released and the session is not marked running any more
C12_ReadFailureEndsSession ==
    (failure = "FrameReadFailure" /\ signals = <<>>) =>
        (~t_running /\ t_camera = "closed" /\ ~is_running)

\* C15: when stop() was called twice or more in a row, the last call raised
\* nothing, the page is as the first of these calls left it - is_running
\* false, the timer stopped, "Session ended" shown, the CV thread not running
\* - and in the session the worker was asked to stop, and the camera
\* closed, at most once
C15_StopIdempotent ==
    last_call = "stop_again" =>
        /\ page_exc = "none"
        /\ Snapshot(is_running, ui_timer, shown, t_running, t_camera, rep_count) =
               after_stop
        /\ ~is_running
        /\ ui_timer = "stopped"
        /\ t_stops <= 1
        /\ t_closes <= 1

\* stop() called twice in a row on a session whose worker was running with
\* its camera open: the worker was asked to stop once, the camera closed once
C15_Witness ==
    /\ last_call = "stop_again"
    /\ t_stops = 1
    /\ t_closes = 1
    /\ t_camera = "closed"
    /\ after_stop.t_camera = "closed"

\* C17: after a start() with a workout id that has no rule, which fails
\* with UnknownWorkout, no worker is running and the session is not marked
\* running
C17_UnknownWorkoutLeavesStopped ==
    page_exc = "UnknownWorkout" => (~t_running /\ ~is_running)


\* the edges of the state machine of feed
Edges ==
    {<<WAITING_TOP, DESCENDING>>, <<DESCENDING, BOTTOM_REACHED>>,
     <<BOTTOM_REACHED, ASCENDING>>, <<ASCENDING, DESCENDING>>}

\* C21: a feed call leaves the state as it was or takes one of the four
\* edges WAITING_TOP->DESCENDING, DESCENDING->BOTTOM_REACHED,
\* BOTTOM_REACHED->ASCENDING, ASCENDING->DESCENDING; it returns a RepEvent
\* exactly when it takes ASCENDING->DESCENDING; and no call enters
\* WAITING_TOP from another state
C21_OnlyFourEdges ==
    /\ feed_pre.state # detector.state => <<feed_pre.state, detector.state>> \in Edges
    /\ feed_ret.some <=> (feed_pre.state = ASCENDING /\ detector.state = DESCENDING)
    /\ detector.state = WAITING_TOP => feed_pre.state = WAITING_TOP

\* a second RepEvent returned on ASCENDING->DESCENDING by a detector that
\* left WAITING_TOP once
C21_Witness ==
    /\ feed_ret.some
    /\ feed_pre.state = ASCENDING
    /\ detector.state = DESCENDING
    /\ Len(emitted) = 2


\* C22: the list object of every RepEvent feed has returned still holds
\* the samples it held when it was returned, whatever was fed since, and
\* self.current_rep is bound to none of these objects
C22_EventsKeepTheirSamples ==
    /\ Len(event_refs) = Len(emitted)
    /\ \A i \in 1..Len(event_refs) : heap[event_refs[i]] = emitted[i]
    /\ \A i \in 1..Len(event_refs) : event_refs[i] # cur_ref

\* a RepEvent was returned and three more samples have been accumulated
\* since
C22_Witness ==
    /\ Len(event_refs) = 1
    /\ Len(detector.current_rep) = 3
    /\ heap[cur_ref] = detector.current_rep


\* C23: the request of every client that has connected is eventually
\* answered while the server serves, whatever the other clients do: a
\* client being streamed /cv-stream does not keep the others waiting.
\* (Runs are followed up to MaxSent parts written; a run that gets there is
\* not held against the server.)
C23_EveryClientAnswered ==
    \A client \in Clients :
        InBacklog(client) ~>
            (client \in answered \/ m_pc # "serve_forever" \/ Len(sent) >= MaxSent)


\* C24: from the return of stop() to the next start(), no frame_ready or
\* rep_detected signal still delivered changes what stop() left: no frame
\* is shown and rep_count is what it was when stop() returned
C24_NoSignalCountsAfterStop ==
    (~is_running /\ after_stop # NoSnapshot) =>
        (shown # "frame" /\ rep_count = after_stop.rep_count)


\* C25: no invocation of store_reps ends in an error, whatever the pose log
\* holds
C25_StoreRepsCompletes == error # "UnboundLocalError"


\* the tick of the first WAITING_TOP->DESCENDING crossing in the angles h:
\* the first present angle >= max_threshold that has a present angle
\* before it; 0 if there is none
FirstCrossing(h) ==
    LET crossings == {i \in 1..Len(h) :
                         /\ h[i] # Absent
                         /\ h[i] >= MaxT
                         /\ \E j \in 1..(i - 1) : h[j] # Absent}
    IN  IF crossings = {} THEN 0
        ELSE CHOOSE i \in crossings : \A k \in crossings : i <= k

RECURSIVE SamplesFrom(_, _)
\* the samples of the present angles of h[i..], tick k fed at (k - 1) * TickMs
SamplesFrom(h, i) ==
    IF i > Len(h) THEN <<>>
    ELSE (IF h[i] = Absent THEN <<>> ELSE <<Sample(h[i], (i - 1) * TickMs)>>)
         \o SamplesFrom(h, i + 1)

RECURSIVE Concat(_)
\* the events of a sequence of RepEvents, one after the other
Concat(events) ==
    IF events = <<>> THEN <<>> ELSE Head(events) \o Concat(Tail(events))

\* C26: the RepEvents returned so far, put one after the other and followed
\* by the samples accumulated for the next one, are exactly the samples of
\* the present-angle ticks from the first WAITING_TOP->DESCENDING crossing
\* on, in feed order: each such tick gives one sample, in one event only,
\* and the sample that closes a rep does not open the next
C26_SamplesPartitionTheStream ==
    IF FirstCrossing(hist) = 0
    THEN emitted = <<>> /\ detector.current_rep = <<>>
    ELSE Concat(emitted) \o detector.current_rep =
             SamplesFrom(hist, FirstCrossing(hist))

\* a RepEvent was returned and two samples have been accumulated for the
\* next one, with a tick of absent angle after the crossing
C26_Witness ==
    /\ Len(emitted) = 1
    /\ Len(detector.current_rep) = 2
    /\ \E i \in (FirstCrossing(hist) + 1)..Len(hist) : hist[i] = Absent

====
